---- MODULE Spec2Model ----
(***************************************************************************)
(* A model of lowpoly_vertex_painting.py: the colour comparator, the face  *)
(* average and weighted hit sample, the flood fill connected_loops, and    *)
(* the operators built on them (fill, draw face, select linked, select     *)
(* similar).  Colours are exact rationals: a vector is a record            *)
(* [n |-> <<r, g, b, a>>, d |-> den] standing for n / d channel by         *)
(* channel; a tolerance is a record [n |-> num, d |-> den].                *)
(***************************************************************************)
EXTENDS Integers, Sequences, FiniteSets, TLC

VARIABLES
    colors,                 \* loop -> colour 4-tuple (the active colour layer)
    face_select,            \* face -> BOOLEAN (face.select / polygon.select)
    vert_select,            \* vertex -> BOOLEAN (vert.select)
    use_paint_mask,         \* me.use_paint_mask
    use_paint_mask_vertex,  \* me.use_paint_mask_vertex
    pc,                     \* position of the running operator
    op,                     \* which operator runs
    starting_faces,         \* connected_loops: the seed list, as passed
    color,                  \* connected_loops: the reference colour
    tolerance,              \* connected_loops / operators: the tolerance
    traverse_vertices,      \* connected_loops: traversal mode
    selected_faces,         \* connected_loops: face mask requested
    selected_vertices,      \* connected_loops: vertex mask requested
    face_set,               \* connected_loops: visited faces
    face_queue,             \* connected_loops: the deque, leftmost first
    loop_set,               \* connected_loops: the result
    prev_loops,             \* result of the previous call on the same inputs
    color4,                 \* the colour a fill or a stroke writes
    hit,                    \* pick_vertex: the face the ray hit, or NoHit
    x1, y1, x2, y2,         \* VertexDrawFaceOperator: the last segment
    bvh,                    \* VertexDrawFaceOperator: the cached BVH tree
    rays,                   \* draw_face_op_main: the screen points of the rays cast
    event                   \* last event handed to VertexDrawFaceOperator.modal

mesh_vars == <<colors, face_select, vert_select, use_paint_mask, use_paint_mask_vertex>>
call_vars == <<starting_faces, color, tolerance, traverse_vertices, selected_faces,
               selected_vertices, face_set, face_queue, loop_set, prev_loops>>
stroke_vars == <<x1, y1, x2, y2, bvh, rays, event>>
vars == <<mesh_vars, call_vars, stroke_vars, pc, op, color4, hit>>

(***************************************************************************)
(* Bounds of the model.                                                    *)
(***************************************************************************)
\* Tolerances are the fractions k / TolSteps, k in 0 .. TolSteps, of [0, 1].
TolSteps == 2
\* Distances from a hit point to a corner's vertex are whole numbers up to this.
MaxDist == 1
\* Screen coordinates (mouse_region_x) range over 0 .. MaxCoord.
MaxCoord == 6

(***************************************************************************)
(* The mesh: three triangles.  Faces 1 and 2 share the edge {2, 3}; face 3 *)
(* touches face 2 only at vertex 4; faces 1 and 3 share nothing.           *)
(***************************************************************************)
FaceVerts == << <<1, 2, 3>>, <<3, 2, 4>>, <<4, 5, 6>> >>

Faces == 1 .. Len(FaceVerts)

Verts == UNION {{FaceVerts[f][i] : i \in 1 .. Len(FaceVerts[f])} : f \in Faces}

\* A loop (face corner) is <<face, index in the face>>.
Loops == UNION {{<<f, i>> : i \in 1 .. Len(FaceVerts[f])} : f \in Faces}

LoopFace(l) == l[1]

LoopVert(l) == FaceVerts[l[1]][l[2]]

\* face.loops, in winding order
FaceLoops(f) == [i \in 1 .. Len(FaceVerts[f]) |-> <<f, i>>]

FaceLoopSet(f) == {<<f, i>> : i \in 1 .. Len(FaceVerts[f])}

\* The edge a loop runs along: from its vertex to the next one of the face.
LoopEdge(l) ==
    LET vs == FaceVerts[l[1]]
    IN  {vs[l[2]], vs[(l[2] % Len(vs)) + 1]}

\* loop.link_loops: the other loops around the loop's edge
link_loops(l) == {m \in Loops : m # l /\ LoopEdge(m) = LoopEdge(l)}

\* vert.link_loops: every loop that uses the vertex
vert_link_loops(v) == {m \in Loops : LoopVert(m) = v}

(***************************************************************************)
(* Colours.                                                                *)
(***************************************************************************)
Red == <<1, 0, 0, 1>>

Blue == <<0, 0, 1, 1>>

White == <<1, 1, 1, 1>>

Palette == {Red, Blue}

Channels == 1 .. 4

\* Vector(c): a stored loop colour as a vector
Vec(c) == [n |-> c, d |-> 1]

ZeroVec == [n |-> <<0, 0, 0, 0>>, d |-> 1]

NoColor == [n |-> <<>>, d |-> 0]

NoHit == 0

Tol(a, b) == [n |-> a, d |-> b]

\* tolerance=0.001, the default of connected_loops
DefaultTolerance == Tol(1, 1000)

Tolerances == {Tol(k, TolSteps) : k \in 0 .. TolSteps}

Sq(a) == a * a

\* (v1 - v2).length_squared / 3.0 >= tolerance, the comparison turned round
color_equal_flipped(v1, v2, tol) ==
    LET sq == Sq(v1.n[1] * v2.d - v2.n[1] * v1.d) + Sq(v1.n[2] * v2.d - v2.n[2] * v1.d)
              + Sq(v1.n[3] * v2.d - v2.n[3] * v1.d) + Sq(v1.n[4] * v2.d - v2.n[4] * v1.d)
    IN  sq * tol.d >= 3 * tol.n * Sq(v1.d * v2.d)

\* (v1 - v2).length_squared / 3.0 <= tolerance
color_equal(v1, v2, tol) ==
    LET sq == Sq(v1.n[1] * v2.d - v2.n[1] * v1.d) + Sq(v1.n[2] * v2.d - v2.n[2] * v1.d)
              + Sq(v1.n[3] * v2.d - v2.n[3] * v1.d) + Sq(v1.n[4] * v2.d - v2.n[4] * v1.d)
    IN  sq * tol.d <= 3 * tol.n * Sq(v1.d * v2.d)

RECURSIVE SumChannel(_, _, _, _)
\* sum over the first k loops of a face of one channel, each times a weight
SumChannel(cols, weights, loops, ch) ==
    IF loops = <<>> THEN 0
    ELSE cols[Head(loops)][ch] * weights[1] + SumChannel(cols, Tail(weights), Tail(loops), ch)

Ones(f) == [i \in 1 .. Len(FaceVerts[f]) |-> 1]

RECURSIVE Gcd(_, _)
Gcd(a, b) == IF b = 0 THEN a ELSE Gcd(b, a % b)

\* vector / scalar: the quotient, as a fraction in lowest terms
Quotient(num, den) ==
    LET g == Gcd(Gcd(Gcd(Gcd(den, num[1]), num[2]), num[3]), num[4])
    IN  [n |-> [ch \in Channels |-> num[ch] \div g], d |-> den \div g]

\* the average colour of a face
face_color(cols, f) ==
    Quotient([ch \in Channels |-> SumChannel(cols, Ones(f), FaceLoops(f), ch)],
             Len(FaceVerts[f]))

RECURSIVE SumSeq(_)
SumSeq(s) == IF s = <<>> THEN 0 ELSE Head(s) + SumSeq(Tail(s))

\* pick_vertex_color on a hit: corner colours weighted by the distance of the
\* hit location to each corner's vertex, divided by the total when it is > 0
pick_vertex_color(cols, f, dist) ==
    Quotient([ch \in Channels |-> SumChannel(cols, dist, FaceLoops(f), ch)],
             IF SumSeq(dist) > 0 THEN SumSeq(dist) ELSE 1)

(***************************************************************************)
(* connected_loops, one step per iteration of its while loop.              *)
(***************************************************************************)
Range(s) == {s[i] : i \in 1 .. Len(s)}

\* The orders in which a set may be iterated.
Orderings(S) == {s \in [1 .. Cardinality(S) -> S] : Range(s) = S}

Reverse(s) == [i \in 1 .. Len(s) |-> s[Len(s) + 1 - i]]

\* the face mask never consulted
CanVisitAlways(f) == TRUE

\* if not selected_faces or face.select
CanVisit(f) == ~selected_faces \/ face_select[f]

\* the vertex mask never consulted
CanSaveAlways(l) == TRUE

\* if not selected_vertices or loop.vert.select
CanSave(l) == ~selected_vertices \/ vert_select[LoopVert(l)]

\* every loop of the mesh taken for a neighbour
ConnectedAnywhere(l) == Loops

\* the traversal flag ignored: always through the vertex
ConnectedByVertex(l) == vert_link_loops(LoopVert(l))

\* loop.vert.link_loops if traverse_vertices else loop.link_loops
Connected(l) ==
    IF traverse_vertices THEN vert_link_loops(LoopVert(l)) ELSE link_loops(l)

\* the loops of a face that pass color_equal(loop[color_layer], color, tolerance)
Matching(f) == {l \in FaceLoopSet(f) : color_equal(Vec(colors[l]), color, tolerance)}

\* the neighbours enqueued without the test `connected_face not in face_set`
NewFacesRevisit(f) ==
    {LoopFace(m) : m \in {m \in UNION {Connected(l) : l \in Matching(f)} :
                              color_equal(Vec(colors[m]), color, tolerance)}}

\* the faces one iteration adds to face_set and to the queue
NewFaces(f) ==
    {LoopFace(m) : m \in {m \in UNION {Connected(l) : l \in Matching(f)} :
                              /\ LoopFace(m) \notin face_set
                              /\ color_equal(Vec(colors[m]), color, tolerance)}}

\* face_set = set(starting_faces); face_queue = deque(face_set); loop_set = set();
\* color defaults to the average of the first face the set iterates
Enter(seeds, col, order) ==
    /\ order \in Orderings(Range(seeds))
    /\ face_set' = Range(seeds)
    /\ face_queue' = order
    /\ loop_set' = {}
    /\ color' = IF col = NoColor THEN face_color(colors, order[1]) ELSE col

\* one iteration of `while len(face_queue) > 0`
Pop ==
    /\ pc = "loop"
    /\ face_queue # <<>>
    /\ LET face == face_queue[Len(face_queue)]
           rest == SubSeq(face_queue, 1, Len(face_queue) - 1)
           saved == IF CanVisit(face) THEN {l \in Matching(face) : CanSave(l)} ELSE {}
           new == IF CanVisit(face) THEN NewFaces(face) ELSE {}
       IN  /\ loop_set' = loop_set \cup saved
           /\ face_set' = face_set \cup new
           /\ \E order \in Orderings(new) : face_queue' = Reverse(order) \o rest
    /\ UNCHANGED <<mesh_vars, stroke_vars, pc, op, color4, hit, starting_faces, color,
                   tolerance, traverse_vertices, selected_faces, selected_vertices,
                   prev_loops>>

\* the loop ends: return loop_set
Return ==
    /\ pc = "loop"
    /\ face_queue = <<>>
    /\ pc' = "returned"
    /\ UNCHANGED <<mesh_vars, call_vars, stroke_vars, op, color4, hit>>

(***************************************************************************)
(* connected_loops applied to drawn inputs.                                *)
(***************************************************************************)
Patterns == {<<c, c, c>> : c \in Palette} \cup {<<Red, Blue, Blue>>}

Colorings == {[l \in Loops |-> pat[l[1]][l[2]]] : pat \in [Faces -> Patterns]}

AllFaces == [f \in Faces |-> TRUE]

AllVerts == [v \in Verts |-> TRUE]

FaceVertSet(f) == {FaceVerts[f][i] : i \in 1 .. Len(FaceVerts[f])}

\* every face selected but g
AllFacesBut(g) == [f \in Faces |-> f # g]

\* every vertex selected but those of face g
AllVertsBut(g) == [v \in Verts |-> v \notin FaceVertSet(g)]

RECURSIVE Sorted(_)
\* the faces of a set as a list
Sorted(S) ==
    IF S = {} THEN <<>>
    ELSE LET m == CHOOSE x \in S : \A y \in S : x <= y
         IN  <<m>> \o Sorted(S \ {m})

\* every non-empty set of faces as a list, and every face listed twice
SeedLists == {Sorted(S) : S \in SUBSET Faces \ {{}}} \cup {<<f, f>> : f \in Faces}

StrokeIdle ==
    /\ x1 = 0 /\ y1 = 0 /\ x2 = 0 /\ y2 = 0
    /\ bvh = "none"
    /\ rays = <<>>
    /\ event = "none"

CallIdle ==
    /\ face_set = {} /\ face_queue = <<>> /\ loop_set = {} /\ prev_loops = {}

\* The masks: none, a face mask leaving one face out, a vertex mask leaving one
\* face's vertices out, or both.
InitMasks ==
    /\ use_paint_mask \in BOOLEAN
    /\ use_paint_mask_vertex \in BOOLEAN
    /\ \E g \in Faces :
          /\ face_select = IF use_paint_mask THEN AllFacesBut(g) ELSE AllFaces
          /\ vert_select = IF use_paint_mask_vertex THEN AllVertsBut(g) ELSE AllVerts

InitLoops ==
    /\ colors \in Colorings
    /\ InitMasks
    /\ selected_faces = use_paint_mask
    /\ selected_vertices = use_paint_mask_vertex
    /\ starting_faces \in SeedLists
    /\ color \in {NoColor, Vec(Red)}
    /\ tolerance \in Tolerances
    /\ traverse_vertices \in BOOLEAN
    /\ CallIdle
    /\ pc = "idle" /\ op = "connected_loops"
    /\ color4 = White /\ hit = NoHit
    /\ StrokeIdle

\* connected_loops(bm, starting_faces, color, tolerance, traverse_vertices, ...)
Call ==
    /\ pc = "idle"
    /\ op = "connected_loops"
    /\ \E order \in Orderings(Range(starting_faces)) : Enter(starting_faces, color, order)
    /\ pc' = "loop"
    /\ UNCHANGED <<mesh_vars, stroke_vars, op, color4, hit, starting_faces, tolerance,
                   traverse_vertices, selected_faces, selected_vertices, prev_loops>>

\* connected_loops called again on the same mesh, seeds, reference colour, mode
\* and masks with a tolerance at least as wide
CallWider ==
    /\ pc = "returned"
    /\ op = "connected_loops"
    /\ \E t \in Tolerances :
          /\ tolerance.n * t.d <= t.n * tolerance.d
          /\ tolerance' = t
    /\ \E order \in Orderings(Range(starting_faces)) : Enter(starting_faces, color, order)
    /\ prev_loops' = loop_set
    /\ op' = "connected_loops_again"
    /\ pc' = "loop"
    /\ UNCHANGED <<mesh_vars, stroke_vars, color4, hit, starting_faces,
                   traverse_vertices, selected_faces, selected_vertices>>

NextLoops == Call \/ Pop \/ Return

SpecLoops == InitLoops /\ [][NextLoops]_vars

NextWiden == Call \/ Pop \/ Return \/ CallWider

\* the same calls, each followed by calls of a wider tolerance
SpecWiden == InitLoops /\ [][NextWiden]_vars

\* the calls with no vertex mask, the default reference colour and the two
\* extreme tolerances (exact match, everything matches)
InitFair ==
    /\ InitLoops
    /\ ~selected_vertices
    /\ color = NoColor
    /\ tolerance \in {Tol(0, TolSteps), Tol(TolSteps, TolSteps)}

\* The loop is straight-line code on one thread: it keeps running until it returns.
FairLoops ==
    InitFair /\ [][NextLoops]_vars /\ WF_vars(Call) /\ WF_vars(Pop) /\ WF_vars(Return)

(***************************************************************************)
(* fill_op_main.                                                           *)
(***************************************************************************)
\* the brush colours a fill or a stroke may carry (RGB)
BrushColors == {<<1, 1, 1>>, <<0, 0, 1>>}

\* Vector((color[0], color[1], color[2], 1.0))
WithAlpha(c) == <<c[1], c[2], c[3], 1>>

\* the distances of a hit location to the corners' vertices
Distances(f) == [1 .. Len(FaceVerts[f]) -> 0 .. MaxDist]

\* loop[color_layer] = color4 for every loop of a set
Paint(cols, loops, c4) == [l \in Loops |-> IF l \in loops THEN c4 ELSE cols[l]]

\* the fill of all matching corners, held back by the face mask
FillAllMasked(cols, target, tol, c4) ==
    [l \in Loops |->
        IF color_equal(target, Vec(cols[l]), tol) /\ (use_paint_mask => face_select[LoopFace(l)])
        THEN c4 ELSE cols[l]]

\* for face in bm.faces: for loop in face.loops:
\*     if color_equal(target_color, loop[color_layer], tolerance): loop[color_layer] = color4
FillAll(cols, target, tol, c4) ==
    [l \in Loops |-> IF color_equal(target, Vec(cols[l]), tol) THEN c4 ELSE cols[l]]

InitFill ==
    /\ colors \in Colorings
    /\ InitMasks
    /\ selected_faces = FALSE /\ selected_vertices = FALSE
    /\ starting_faces = <<>>
    /\ color = NoColor
    /\ tolerance = DefaultTolerance
    /\ traverse_vertices = FALSE
    /\ CallIdle
    /\ pc = "idle" /\ op = "none"
    /\ color4 = White /\ hit = NoHit
    /\ StrokeIdle

\* the ray cast finds no face: nothing is done
Fill_Miss ==
    /\ pc = "idle"
    /\ hit' = NoHit
    /\ color' = ZeroVec
    /\ \E t \in Tolerances : tolerance' = t
    /\ op' = "fill_miss"
    /\ pc' = "done"
    /\ UNCHANGED <<mesh_vars, stroke_vars, color4, starting_faces, traverse_vertices,
                   selected_faces, selected_vertices, face_set, face_queue, loop_set,
                   prev_loops>>

\* continuous: connected_loops(bm, [face], color=target_color, ...) is entered
Fill_Continuous ==
    /\ pc = "idle"
    /\ \E f \in Faces, c \in BrushColors, t \in Tolerances, tv \in BOOLEAN :
        \E dist \in Distances(f) :
          /\ hit' = f
          /\ color4' = WithAlpha(c)
          /\ tolerance' = t
          /\ traverse_vertices' = tv
          /\ starting_faces' = <<f>>
          /\ Enter(<<f>>, pick_vertex_color(colors, f, dist), <<f>>)
    /\ selected_faces' = use_paint_mask
    /\ selected_vertices' = use_paint_mask_vertex
    /\ op' = "fill"
    /\ pc' = "loop"
    /\ UNCHANGED <<mesh_vars, stroke_vars, prev_loops>>

\* for loop in connected_loops(...): loop[color_layer] = color4
Fill_Finish ==
    /\ pc = "returned"
    /\ op = "fill"
    /\ colors' = Paint(colors, loop_set, color4)
    /\ pc' = "done"
    /\ UNCHANGED <<face_select, vert_select, use_paint_mask, use_paint_mask_vertex,
                   call_vars, stroke_vars, op, color4, hit>>

\* not continuous: every matching corner of the mesh is recoloured
Fill_NotContinuous ==
    /\ pc = "idle"
    /\ \E f \in Faces, c \in BrushColors, t \in Tolerances :
        \E dist \in Distances(f) :
          /\ hit' = f
          /\ color4' = WithAlpha(c)
          /\ tolerance' = t
          /\ color' = pick_vertex_color(colors, f, dist)
          /\ colors' = FillAll(colors, pick_vertex_color(colors, f, dist), t, WithAlpha(c))
    /\ op' = "fill_all"
    /\ pc' = "done"
    /\ UNCHANGED <<face_select, vert_select, use_paint_mask, use_paint_mask_vertex,
                   stroke_vars, starting_faces, traverse_vertices, selected_faces,
                   selected_vertices, face_set, face_queue, loop_set, prev_loops>>

Next == Fill_Miss \/ Fill_Continuous \/ Pop \/ Return \/ Fill_Finish \/ Fill_NotContinuous

Spec == InitFill /\ [][Next]_vars

(***************************************************************************)
(* select_similar_by_color_op_main and select_linked_by_color_op_main.     *)
(***************************************************************************)
SelectedFaces == {f \in Faces : face_select[f]}

\* the last selected face taken for the reference
last_selected(sel) == CHOOSE f \in sel : \A g \in sel : g <= f

\* next(iter(filter(lambda face : face.select, bm.faces)))
first_selected(sel) == CHOOSE f \in sel : \A g \in sel : f <= g

\* face.select = True selects the face and its vertices
SelectFaces(fs) ==
    /\ face_select' = [f \in Faces |-> face_select[f] \/ f \in fs]
    /\ vert_select' = [v \in Verts |-> vert_select[v] \/ \E f \in fs : v \in FaceVertSet(f)]

InitSelect ==
    /\ colors \in Colorings
    /\ face_select \in [Faces -> BOOLEAN]
    /\ \E f \in Faces : face_select[f]
    /\ vert_select = [v \in Verts |-> \E f \in Faces : face_select[f] /\ v \in FaceVertSet(f)]
    /\ use_paint_mask = FALSE /\ use_paint_mask_vertex = FALSE
    /\ selected_faces = FALSE /\ selected_vertices = FALSE
    /\ starting_faces = <<>>
    /\ color = NoColor
    /\ tolerance = DefaultTolerance
    /\ traverse_vertices = FALSE
    /\ CallIdle
    /\ pc = "idle" /\ op = "none"
    /\ color4 = White /\ hit = NoHit
    /\ StrokeIdle

\* select_similar_by_color_op_main(context, tolerance)
SelectSimilar ==
    /\ pc = "idle"
    /\ SelectedFaces # {}
    /\ \E t \in Tolerances :
          /\ tolerance' = t
          /\ color' = face_color(colors, first_selected(SelectedFaces))
          /\ SelectFaces({f \in Faces :
                 color_equal(face_color(colors, first_selected(SelectedFaces)),
                             face_color(colors, f), t)})
    /\ starting_faces' = Sorted(SelectedFaces)
    /\ op' = "select_similar"
    /\ pc' = "done"
    /\ UNCHANGED <<colors, use_paint_mask, use_paint_mask_vertex, stroke_vars, color4, hit,
                   traverse_vertices, selected_faces, selected_vertices, face_set,
                   face_queue, loop_set, prev_loops>>

\* connected_loops(bm, filter(lambda face : face.select, bm.faces), traverse_vertices=True)
SelectLinked ==
    /\ pc = "idle"
    /\ SelectedFaces # {}
    /\ starting_faces' = Sorted(SelectedFaces)
    /\ tolerance' = DefaultTolerance
    /\ traverse_vertices' = TRUE
    /\ selected_faces' = FALSE
    /\ selected_vertices' = FALSE
    /\ \E order \in Orderings(SelectedFaces) : Enter(Sorted(SelectedFaces), NoColor, order)
    /\ op' = "select_linked"
    /\ pc' = "loop"
    /\ UNCHANGED <<mesh_vars, stroke_vars, color4, hit, prev_loops>>

\* for loop in connected_loops(...): loop.face.select = True
SelectLinked_Finish ==
    /\ pc = "returned"
    /\ op = "select_linked"
    /\ SelectFaces({LoopFace(l) : l \in loop_set})
    /\ pc' = "done"
    /\ UNCHANGED <<colors, use_paint_mask, use_paint_mask_vertex, call_vars, stroke_vars,
                   op, color4, hit>>

NextSelect == SelectSimilar \/ SelectLinked \/ Pop \/ Return \/ SelectLinked_Finish

SpecSelect == InitSelect /\ [][NextSelect]_vars

(***************************************************************************)
(* VertexDrawFaceOperator and draw_face_op_main.  The screen is MaxCoord+1 *)
(* pixels wide and two rows high; the faces lie side by side in row 0.     *)
(***************************************************************************)
Columns == 0 .. MaxCoord

Rows == {0, 1}

\* bvh.ray_cast through a pixel of the screen: the face hit, or NoHit
ScreenFace(px, py) ==
    IF py # 0 THEN NoHit
    ELSE IF px < 2 THEN 1
    ELSE IF px < 4 THEN 2
    ELSE IF px = 4 THEN NoHit
    ELSE IF px < 7 THEN 3
    ELSE NoHit

\* floor(length / 2), without the max(1, ...)
NumStepsUnclamped(dx, dy) ==
    CHOOSE k \in 0 .. (dx * dx + dy * dy) :
        4 * k * k <= dx * dx + dy * dy /\ 4 * (k + 1) * (k + 1) > dx * dx + dy * dy

\* n = max(1, floor(length / 2)), length = sqrt(dx * dx + dy * dy)
NumSteps(dx, dy) ==
    LET k == CHOOSE k \in 0 .. (dx * dx + dy * dy) :
                 4 * k * k <= dx * dx + dy * dy /\ 4 * (k + 1) * (k + 1) > dx * dx + dy * dy
    IN  IF k > 1 THEN k ELSE 1

\* t = 0.5 if n == 1 else i / (n - 1); x = (1 - t) * x1 + t * x2, y likewise:
\* the point as the fractions x / d, y / d
SamplePoint(n, i, ax, ay, bx, by) ==
    LET d == IF n = 1 THEN 2 ELSE n - 1
        t == IF n = 1 THEN 1 ELSE i
    IN  [x |-> (d - t) * ax + t * bx, y |-> (d - t) * ay + t * by, d |-> d]

\* the ray through a sample point: the face of the pixel the point lies in
RayCast(pt) == ScreenFace(pt.x \div pt.d, pt.y \div pt.d)

\* the rays of one call of draw_face_op_main, in order
SampleRays(ax, ay, bx, by) ==
    LET n == NumSteps(ax - bx, ay - by)
    IN  [j \in 1 .. n |-> SamplePoint(n, j - 1, ax, ay, bx, by)]

\* the faces a sequence of rays paints: those hit, and selected when a paint
\* mask is on
DrawnFaces(rs) ==
    {f \in {RayCast(rs[j]) : j \in 1 .. Len(rs)} \ {NoHit} :
        ~(use_paint_mask \/ use_paint_mask_vertex) \/ face_select[f]}

\* draw_face_op_main(self, context)
DrawFace(ax, ay, bx, by) ==
    LET rs == SampleRays(ax, ay, bx, by)
        drawn == DrawnFaces(rs)
    IN  /\ rays' = rs
        /\ colors' = [l \in Loops |-> IF LoopFace(l) \in drawn THEN color4 ELSE colors[l]]

InitStroke ==
    /\ colors = [l \in Loops |-> Red]
    /\ InitMasks
    /\ selected_faces = FALSE /\ selected_vertices = FALSE
    /\ starting_faces = <<>>
    /\ color = NoColor
    /\ tolerance = DefaultTolerance
    /\ traverse_vertices = FALSE
    /\ CallIdle
    /\ pc = "idle" /\ op = "none"
    /\ color4 \in {WithAlpha(c) : c \in BrushColors}
    /\ hit = NoHit
    /\ StrokeIdle

\* VertexDrawFaceOperator.invoke: the press that begins a stroke
Stroke_Invoke ==
    /\ pc = "idle"
    /\ \E x \in Columns, y \in Rows :
          /\ x1' = x /\ x2' = x /\ y1' = y /\ y2' = y
          /\ DrawFace(x, y, x, y)
    /\ bvh' = "built"
    /\ event' = "PRESS"
    /\ op' = "draw_face"
    /\ pc' = "modal"
    /\ UNCHANGED <<face_select, vert_select, use_paint_mask, use_paint_mask_vertex,
                   call_vars, color4, hit>>

\* modal, event.type == "MOUSEMOVE"
Stroke_Move ==
    /\ pc = "modal"
    /\ \E x \in Columns, y \in Rows :
          /\ x1' = x2 /\ y1' = y2 /\ x2' = x /\ y2' = y
          /\ DrawFace(x2, y2, x, y)
    /\ event' = "MOUSEMOVE"
    /\ UNCHANGED <<face_select, vert_select, use_paint_mask, use_paint_mask_vertex,
                   call_vars, color4, hit, bvh, op, pc>>

\* modal, LEFTMOUSE RELEASE: FINISHED; the operator is dropped, and with it
\* its segment and its BVH tree
Stroke_Release ==
    /\ pc = "modal"
    /\ event' = "RELEASE"
    /\ x1' = 0 /\ y1' = 0 /\ x2' = 0 /\ y2' = 0
    /\ rays' = <<>>
    /\ bvh' = "none"
    /\ pc' = "idle"
    /\ UNCHANGED <<mesh_vars, call_vars, color4, hit, op>>

\* the events of a secondary input, which end the gesture for the host
SecondaryEvents == {"ESC", "RIGHTMOUSE"}

\* modal, any other event: RUNNING_MODAL, nothing else
Stroke_Other ==
    /\ pc = "modal"
    /\ \E e \in SecondaryEvents : event' = e
    /\ UNCHANGED <<mesh_vars, call_vars, color4, hit, op, pc, x1, y1, x2, y2, rays, bvh>>

NextStroke == Stroke_Invoke \/ Stroke_Move \/ Stroke_Release \/ Stroke_Other

SpecStroke == InitStroke /\ [][NextStroke]_vars

(***************************************************************************)
(* What the claims speak of, stated apart from the loop above.             *)
(***************************************************************************)
Seeds == Range(starting_faces)

Match(l) == color_equal(Vec(colors[l]), color, tolerance)

FacePass(f) == selected_faces => face_select[f]

VertPass(l) == selected_vertices => vert_select[LoopVert(l)]

SharesEdge(l, m) == l # m /\ LoopEdge(l) = LoopEdge(m)

SharesVert(l, m) == LoopVert(l) = LoopVert(m)

Linked(l, m) == IF traverse_vertices THEN SharesVert(l, m) ELSE SharesEdge(l, m)

RECURSIVE Closure(_, _)
\* the faces a relation (a set of pairs) reaches from S
Closure(S, rel) ==
    LET next == S \cup {p[2] : p \in {q \in rel : q[1] \in S}}
    IN  IF next = S THEN S ELSE Closure(next, rel)

\* the matching corners of the mesh
Matches == {l \in Loops : Match(l)}

\* B has a matching corner linked to a matching corner of A
RelAny ==
    LET ms == Matches
    IN  {p \in Faces \X Faces :
            \E l \in ms, m \in ms :
                LoopFace(l) = p[1] /\ LoopFace(m) = p[2] /\ Linked(l, m)}

\* the same, from faces the face mask lets through only
RelSel == {p \in RelAny : FacePass(p[1])}

\* across a shared edge only, masks aside
RelEdge ==
    LET ms == Matches
    IN  {p \in Faces \X Faces :
            \E l \in ms, m \in ms :
                LoopFace(l) = p[1] /\ LoopFace(m) = p[2] /\ SharesEdge(l, m)}

\* across a shared vertex
RelVert ==
    LET ms == Matches
    IN  {p \in Faces \X Faces :
            \E l \in ms, m \in ms :
                LoopFace(l) = p[1] /\ LoopFace(m) = p[2] /\ SharesVert(l, m)}

Recordable(f) == {l \in FaceLoopSet(f) : FacePass(f) /\ Match(l) /\ VertPass(l)}

\* the faces that own a returned corner
Owners == {LoopFace(l) : l \in loop_set}

\* two owners adjacent in the mesh under the requested relation
AdjOwners ==
    {p \in Owners \X Owners :
        \E l \in FaceLoopSet(p[1]), m \in FaceLoopSet(p[2]) : Linked(l, m)}

NoDuplicates(q) == \A i, j \in 1 .. Len(q) : q[i] = q[j] => i = j

(***************************************************************************)
(* C1                                                                      *)
(***************************************************************************)
\* C1 as claimed: under a face mask, a selected face that a colour-matching
\* path reaches from the seeds, through unselected faces too, has its
\* matching corners in the result.
C1_MaskGatesRecordingOnly ==
    (pc = "returned" /\ selected_faces) =>
        \A g \in Closure(Seeds, RelAny) : Recordable(g) \subseteq loop_set

\* C1 amended: the face mask gates recording and traversal alike.  No corner
\* of an unselected face is returned, the faces visited are those reached
\* from the seeds through selected faces, and the result is the recordable
\* corners of these; a selected face reached only through unselected faces
\* has no corner in it.
C1_MaskGatesTraversal ==
    (pc = "returned") =>
        LET any == RelAny
            reached == Closure(Seeds, {p \in any : FacePass(p[1])})
        IN  /\ \A f \in Faces : ~FacePass(f) => FaceLoopSet(f) \cap loop_set = {}
            /\ face_set = reached
            /\ loop_set = UNION {Recordable(f) : f \in reached}
            /\ \A g \in Closure(Seeds, any) \ reached :
                  FaceLoopSet(g) \cap loop_set = {}

\* a selected face with matching corners lies behind an unselected face
C1_Witness ==
    /\ pc = "returned"
    /\ selected_faces
    /\ \E g \in Closure(Seeds, RelAny) \ Closure(Seeds, RelSel) :
          Recordable(g) # {} /\ FaceLoopSet(g) \cap loop_set = {}

(***************************************************************************)
(* C2                                                                      *)
(***************************************************************************)
\* C2 as claimed: the result always holds a corner of a seed face.
C2_AlwaysSeedCorner ==
    (pc = "returned") => \E l \in loop_set : LoopFace(l) \in Seeds

\* C2 amended: the result holds a corner of a seed face exactly when some
\* seed face passes the face mask and has a corner that matches the
\* reference colour within the tolerance and passes the vertex mask; when no
\* seed face passes the face mask with a matching corner, the result is empty.
C2_SeedCornerIffRecordable ==
    (pc = "returned") =>
        /\ (\E l \in loop_set : LoopFace(l) \in Seeds)
              <=> (\E f \in Seeds : Recordable(f) # {})
        /\ (\A f \in Seeds : ~FacePass(f) \/ (\A l \in FaceLoopSet(f) : ~Match(l)))
              => loop_set = {}

\* an empty result with no mask at all: no seed corner matches the reference
C2_Witness ==
    /\ pc = "returned"
    /\ ~selected_faces /\ ~selected_vertices
    /\ loop_set = {}

(***************************************************************************)
(* C4                                                                      *)
(***************************************************************************)
\* one iteration: the visited set only grows, the popped face leaves the
\* queue for good, and what enters the queue is what enters the visited set
C4_PopStep ==
    (pc = "loop" /\ pc' = "loop") =>
        /\ face_queue # <<>>
        /\ face_set \subseteq face_set'
        /\ Range(face_queue') =
              (Range(face_queue) \ {face_queue[Len(face_queue)]})
                  \cup (face_set' \ face_set)

\* C4: the visited set only grows, a face is on the queue at most once (the
\* queue holds visited faces, each once, and only unvisited faces enter it),
\* and the loop ends with the queue empty.
C4_Terminates ==
    /\ [](NoDuplicates(face_queue) /\ Range(face_queue) \subseteq face_set)
    /\ [][C4_PopStep]_vars
    /\ (pc = "loop") ~> (pc = "returned" /\ face_queue = <<>>)

\* a seed list naming a face twice, and the whole mesh visited
C4_Witness ==
    /\ pc = "returned"
    /\ Len(starting_faces) > Cardinality(Seeds)
    /\ face_set = Faces

(***************************************************************************)
(* C5                                                                      *)
(***************************************************************************)
\* C5: a call with a tolerance at least as wide returns every corner the
\* narrower call returned.
C5_WideningNeverShrinks ==
    (pc = "returned" /\ op = "connected_loops_again") => prev_loops \subseteq loop_set

\* the wider call returned strictly more
C5_Witness ==
    /\ pc = "returned"
    /\ op = "connected_loops_again"
    /\ prev_loops # {}
    /\ prev_loops # loop_set

(***************************************************************************)
(* C6                                                                      *)
(***************************************************************************)
\* C6: in edge mode every returned corner lies on a face that a chain of
\* shared edges between matching corners joins to a seed; in vertex mode the
\* recordable corners of every face that shares a matching vertex with a
\* seed face (one the face mask lets through) are returned.
C6_TraversalGranularity ==
    (pc = "returned") =>
        /\ ~traverse_vertices => Owners \subseteq Closure(Seeds, RelEdge)
        /\ traverse_vertices =>
              \A p \in RelVert :
                  (p[1] \in Seeds /\ FacePass(p[1])) => Recordable(p[2]) \subseteq loop_set

\* vertex mode returned corners of a face no chain of shared edges reaches
C6_Witness ==
    /\ pc = "returned"
    /\ traverse_vertices
    /\ ~selected_faces /\ ~selected_vertices
    /\ Owners \ Closure(Seeds, RelEdge) # {}

(***************************************************************************)
(* C7                                                                      *)
(***************************************************************************)
\* C7 as claimed: any two faces that own a returned corner are joined by a
\* chain of such faces, adjacent under the requested relation.
C7_ResultConnected ==
    (pc = "returned") =>
        LET adj == AdjOwners
        IN  \A a \in Owners : Owners \subseteq Closure({a}, adj)

\* C7 amended: with no vertex mask, every face that owns a returned corner is
\* joined by such a chain to a seed face that owns one (so a single seed
\* gives a connected result, several seeds one piece around each).
C7_ConnectedToASeed ==
    (pc = "returned" /\ ~selected_vertices) =>
        LET adj == AdjOwners
        IN  Owners \subseteq UNION {Closure({f}, adj) : f \in Owners \cap Seeds}

\* one seed, and the result spreads over the whole mesh
C7_Witness ==
    /\ pc = "returned"
    /\ ~selected_vertices
    /\ Cardinality(Seeds) = 1
    /\ Owners = Faces

(***************************************************************************)
(* C3                                                                      *)
(***************************************************************************)
\* the faces selected when the operator was invoked
WasSelected == Range(starting_faces)

\* C3 as claimed: select similar leaves selected exactly the faces whose
\* average matches the average of any face selected before.
C3_AnySelectedIsReference ==
    (pc = "done" /\ op = "select_similar") =>
        \A f \in Faces :
            face_select[f] <=>
                \E g \in WasSelected :
                    color_equal(face_color(colors, f), face_color(colors, g), tolerance)

\* C3 amended: the reference is the average of one selected face, the first
\* in the order of the mesh's faces.  Select similar leaves selected the faces
\* selected before and the faces whose average matches that reference, and no
\* other face.
C3_FirstSelectedIsReference ==
    (pc = "done" /\ op = "select_similar") =>
        LET ref == CHOOSE g \in WasSelected : \A h \in WasSelected : g <= h
        IN  /\ color = face_color(colors, ref)
            /\ \A f \in Faces :
                  face_select[f] <=>
                      \/ f \in WasSelected
                      \/ color_equal(face_color(colors, ref), face_color(colors, f), tolerance)

\* two faces were selected, and a face that matches the second but not the
\* first stays unselected
C3_Witness ==
    /\ pc = "done"
    /\ op = "select_similar"
    /\ Cardinality(WasSelected) >= 2
    /\ \E f \in Faces :
          /\ ~face_select[f]
          /\ \E g \in WasSelected :
                color_equal(face_color(colors, f), face_color(colors, g), tolerance)

(***************************************************************************)
(* C10                                                                     *)
(***************************************************************************)
\* the corners that match the sampled target colour, over the whole mesh
TargetMatches(cols, target, tol) == {l \in Loops : color_equal(target, Vec(cols[l]), tol)}

\* C10: a fill that is not continuous recolours exactly the corners of the
\* mesh that match the sampled colour, whatever the masks, and leaves the
\* others; a continuous fill recolours a subset of these and leaves the
\* others; a miss changes no corner.
C10_FillSteps ==
    /\ (pc = "idle" /\ op' = "fill_all") =>
          \A l \in Loops :
              colors'[l] = IF l \in TargetMatches(colors, color', tolerance')
                           THEN color4' ELSE colors[l]
    /\ (pc = "returned" /\ op = "fill" /\ pc' = "done") =>
          /\ loop_set \subseteq TargetMatches(colors, color, tolerance)
          /\ \A l \in Loops :
                colors'[l] = IF l \in loop_set THEN color4 ELSE colors[l]
    /\ (pc = "idle" /\ op' = "fill_miss") => colors' = colors

C10_NonContinuousFill == [][C10_FillSteps]_vars

\* a fill that was not continuous recoloured a corner of an unselected face
\* under an active face mask
C10_Witness ==
    /\ pc = "done"
    /\ op = "fill_all"
    /\ use_paint_mask
    /\ color4 = White
    /\ \E l \in Loops : ~face_select[LoopFace(l)] /\ colors[l] = White

(***************************************************************************)
(* C8                                                                      *)
(***************************************************************************)
\* C8: once the last event handed to a running stroke is a release or a
\* secondary input, the stroke is no longer running and its BVH tree is gone.
C8_StopEndsStroke ==
    (event = "RELEASE" \/ event \in SecondaryEvents) => (pc # "modal" /\ bvh = "none")

(***************************************************************************)
(* C9                                                                      *)
(***************************************************************************)
\* a sample (the press, or a move) whose two screen points are the same
C9_SamePointSample ==
    /\ pc' = "modal"
    /\ event' \in {"PRESS", "MOUSEMOVE"}
    /\ <<x1, y1, x2, y2, event, pc>> # <<x1', y1', x2', y2', event', pc'>>
    /\ x1' = x2' /\ y1' = y2'

\* C9: such a sample casts one ray, through the point itself; the face it
\* hits, if any and if selected when a paint mask is on, has every corner
\* set to the stroke colour (alpha 1), and no other corner changes.
C9_Step ==
    C9_SamePointSample =>
        LET f == ScreenFace(x2', y2')
            painted == /\ f # NoHit
                       /\ (use_paint_mask \/ use_paint_mask_vertex) => face_select[f]
        IN  /\ Len(rays') = 1
            /\ rays'[1].x = x2' * rays'[1].d
            /\ rays'[1].y = y2' * rays'[1].d
            /\ color4[4] = 1
            /\ \A l \in Loops :
                  colors'[l] = IF painted /\ LoopFace(l) = f THEN color4 ELSE colors[l]

C9_SamePointPaintsOneFace == [][C9_Step]_vars

\* a press on a face has painted that face and no other
C9_Witness ==
    /\ pc = "modal"
    /\ event = "PRESS"
    /\ x1 = x2 /\ y1 = y2
    /\ Len(rays) = 1
    /\ ScreenFace(x2, y2) # NoHit
    /\ \A l \in Loops : (colors[l] = color4) <=> (LoopFace(l) = ScreenFace(x2, y2))

====
